---- MODULE Spec2Model ----
(***************************************************************************)
(* Myers' bit-parallel approximate string matching as implemented in       *)
(* src/src/lib.rs: PatternBits, advance_block, find_match_ends,            *)
(* find_match_starts and search_impl.                                      *)
(*                                                                         *)
(* A BlockWord (u64) is modelled as the set of its set bit positions,      *)
(* a subset of 0..BLOCK_LEN-1: & is intersection, | is union, ! is the     *)
(* complement within 0..BLOCK_LEN-1, << drops the bits shifted past the    *)
(* top, and overflowing_add is a ripple-carry adder that drops the final   *)
(* carry.  Vectors indexed from 0 in the source (blocks, match bits) are   *)
(* functions on 0..n-1; text and pattern are sequences, so the source's    *)
(* text[j] is text[j+1] here.                                              *)
(***************************************************************************)
EXTENDS Integers, Sequences, FiniteSets, TLC

\* Number of characters of the pattern represented by each block.
BLOCK_LEN == 64

\* Bounds of the exhaustively enumerated inputs.
MaxPatLen == 2
MaxTextLen == 3
MaxK == 2
\* Number of low rows of a block that the advance_block inputs vary freely.
LowRows == 3

\* Code units used in texts and patterns: one below 256 (direct-indexed
\* table) and one above (hash map).
Alphabet == {97, 955}

\* usize arithmetic is modular.  The model's integers are 32-bit, so the
\* modulus is 2^30 rather than 2^64 (2^32 on wasm32); every length and
\* score of the model is far below it.
UsizeModulus == 2^30

-----------------------------------------------------------------------------
(* BlockWord operations *)

AllOnes == 0..(BLOCK_LEN - 1)
Zero == {}
One == {0}

BitAnd(a, b) == a \cap b
BitOr(a, b) == a \cup b
BitXor(a, b) == (a \ b) \cup (b \ a)
BitNot(a) == AllOnes \ a
Shl1(a) == {i + 1 : i \in a} \cap AllOnes
Bit(r) == {r}

\* u64::overflowing_add(a, b).0: binary addition, the carry out of the top
\* bit dropped.  A carry enters bit i iff some lower bit j generates one
\* (both operands set) and every bit between j and i propagates it
\* (exactly one operand set).
OverflowingAdd(a, b) ==
    LET generate == a \cap b
        propagate == (a \ b) \cup (b \ a)
        carry(i) == \E j \in generate :
                       j < i /\ ((j + 1)..(i - 1)) \subseteq propagate
    IN {i \in AllOnes : (i \in propagate) # carry(i)}

\* The words 0 and 1 as produced by `n as BlockWord` for n in {0, 1}.
AsBlockWord(n) == IF n = 1 THEN One ELSE Zero

one_if_not_zero(n) == IF n # Zero THEN 1 ELSE 0

\* i32 -> usize (sign-extending, modular) and usize -> i32 (truncating).
AsUsize(x) == IF x < 0 THEN x + UsizeModulus ELSE x
AsI32(u) == IF u >= UsizeModulus \div 2 THEN u - UsizeModulus ELSE u

Max(a, b) == IF a >= b THEN a ELSE b
Min(a, b) == IF a <= b THEN a ELSE b

reverse(chars) == [i \in 1..Len(chars) |-> chars[Len(chars) + 1 - i]]

-----------------------------------------------------------------------------
(* advance_block *)

advance_block_or(block, pattern_match_bits, h_in) ==
    LET p_v == block.plus_v
        m_v == block.minus_v
        h_in_negative == IF h_in < 0 THEN 1 ELSE 0
        eq == BitOr(pattern_match_bits, AsBlockWord(h_in_negative))
        x_v == BitOr(eq, m_v)
        x_h == BitOr(BitXor(OverflowingAdd(BitAnd(eq, p_v), p_v), p_v), eq)
        p_h0 == BitOr(m_v, BitNot(BitOr(x_h, p_v)))
        m_h0 == BitAnd(p_v, x_h)
        h_out == one_if_not_zero(BitAnd(p_h0, block.last_row_mask))
                   - one_if_not_zero(BitAnd(m_h0, block.last_row_mask))
        m_h == BitOr(Shl1(m_h0), AsBlockWord(h_in_negative))
        p_h == BitOr(Shl1(p_h0),
                     AsBlockWord((IF h_in # 0 THEN 1 ELSE 0) - h_in_negative))
    IN [block |-> [block EXCEPT !.plus_v = BitOr(m_h, BitNot(BitOr(x_v, p_h))),
                                !.minus_v = BitOr(p_h, x_v)],
        h_out |-> h_out]

advance_block_noshift(block, pattern_match_bits, h_in) ==
    LET p_v == block.plus_v
        m_v == block.minus_v
        h_in_negative == IF h_in < 0 THEN 1 ELSE 0
        eq == BitOr(pattern_match_bits, AsBlockWord(h_in_negative))
        x_v == BitOr(eq, m_v)
        x_h == BitOr(BitXor(OverflowingAdd(BitAnd(eq, p_v), p_v), p_v), eq)
        p_h0 == BitOr(m_v, BitNot(BitOr(x_h, p_v)))
        m_h0 == BitAnd(p_v, x_h)
        h_out == one_if_not_zero(BitAnd(p_h0, block.last_row_mask))
                   - one_if_not_zero(BitAnd(m_h0, block.last_row_mask))
        m_h == BitOr(m_h0, AsBlockWord(h_in_negative))
        p_h == BitOr(Shl1(p_h0),
                     AsBlockWord((IF h_in # 0 THEN 1 ELSE 0) - h_in_negative))
    IN [block |-> [block EXCEPT !.plus_v = BitOr(m_h, BitNot(BitOr(x_v, p_h))),
                                !.minus_v = BitAnd(p_h, x_v)],
        h_out |-> h_out]

\* Returns the updated block and the horizontal output delta.
advance_block(block, pattern_match_bits, h_in) ==
    LET p_v == block.plus_v
        m_v == block.minus_v
        h_in_negative == IF h_in < 0 THEN 1 ELSE 0
        eq == BitOr(pattern_match_bits, AsBlockWord(h_in_negative))
        \* Step 1: horizontal deltas.
        x_v == BitOr(eq, m_v)
        x_h == BitOr(BitXor(OverflowingAdd(BitAnd(eq, p_v), p_v), p_v), eq)
        p_h0 == BitOr(m_v, BitNot(BitOr(x_h, p_v)))
        m_h0 == BitAnd(p_v, x_h)
        \* Step 2: score delta of the last row.
        h_out == one_if_not_zero(BitAnd(p_h0, block.last_row_mask))
                   - one_if_not_zero(BitAnd(m_h0, block.last_row_mask))
        \* Step 3: vertical deltas for the next column.
        m_h == BitOr(Shl1(m_h0), AsBlockWord(h_in_negative))
        p_h == BitOr(Shl1(p_h0),
                     AsBlockWord((IF h_in # 0 THEN 1 ELSE 0) - h_in_negative))
    IN [block |-> [block EXCEPT !.plus_v = BitOr(m_h, BitNot(BitOr(x_v, p_h))),
                                !.minus_v = BitAnd(p_h, x_v)],
        h_out |-> h_out]

-----------------------------------------------------------------------------
(* PatternBits *)

BlockCount(pattern) == (Len(pattern) + BLOCK_LEN - 1) \div BLOCK_LEN

\* The bit vector built for one character of the pattern.
MatchBits(pattern, ch) ==
    [b \in 0..(BlockCount(pattern) - 1) |->
        {r \in 0..(BLOCK_LEN - 1) :
            /\ b * BLOCK_LEN + r < Len(pattern)
            /\ pattern[b * BLOCK_LEN + r + 1] = ch}]

\* ascii is the 256-entry table (an absent key is a None entry), nonascii
\* the hash map.
PatternBits_new(pattern) ==
    LET chars == {pattern[i] : i \in 1..Len(pattern)}
    IN [ascii |-> [ch \in {c \in chars : c < 256} |-> MatchBits(pattern, ch)],
        nonascii |-> [ch \in {c \in chars : c >= 256} |-> MatchBits(pattern, ch)],
        zero |-> [b \in 0..(BlockCount(pattern) - 1) |-> Zero]]

lookup(self, char_code) ==
    IF char_code < 256
    THEN IF char_code \in DOMAIN self.ascii THEN self.ascii[char_code]
         ELSE self.zero
    ELSE IF char_code \in DOMAIN self.nonascii THEN self.nonascii[char_code]
         ELSE self.zero

-----------------------------------------------------------------------------
(* find_match_ends *)

NewBlock(pattern, b) ==
    LET block_count == BlockCount(pattern)
    IN [plus_v |-> BitNot(Zero),
        minus_v |-> Zero,
        last_row_mask |-> IF b = block_count - 1
                          THEN Bit((Len(pattern) - 1) % BLOCK_LEN)
                          ELSE Bit(BLOCK_LEN - 1),
        score |-> IF b = block_count - 1 THEN Len(pattern)
                  ELSE (b + 1) * BLOCK_LEN]

\* The activation of find_match_ends up to the start of the column loop.
\* max_errors is the usize argument.  An empty pattern returns at once.
find_match_ends_enter(text, pattern, max_errors, pattern_bits) ==
    IF pattern = <<>>
    THEN [text |-> text, pattern |-> pattern, pattern_bits |-> pattern_bits,
          max_errors |-> 0, matches |-> <<>>, block_count |-> 0,
          y |-> 0, blocks |-> <<>>, scores |-> <<>>, j |-> 0]
    ELSE LET clamped == Min(max_errors, Len(pattern))
             block_count == BlockCount(pattern)
         IN [text |-> text, pattern |-> pattern, pattern_bits |-> pattern_bits,
             max_errors |-> clamped,
             matches |-> <<>>,
             block_count |-> block_count,
             y |-> Max(0, ((clamped + BLOCK_LEN - 1) \div BLOCK_LEN) - 1),
             blocks |-> [b \in 0..(block_count - 1) |-> NewBlock(pattern, b)],
             scores |-> <<>>,
             j |-> 0]

\* for b in 0..=y { carry = advance_block(..); blocks[b].score += carry }
RECURSIVE AdvanceActive(_, _, _, _, _)
AdvanceActive(blocks, match_bits, b, y, carry) ==
    IF b > y THEN [blocks |-> blocks, carry |-> carry]
    ELSE LET r == advance_block(blocks[b], match_bits[b], carry)
             blk == [r.block EXCEPT !.score = @ + r.h_out]
         IN AdvanceActive([blocks EXCEPT ![b] = blk], match_bits, b + 1, y,
                          r.h_out)

\* while y > 0 && blocks[y].score >= max_errors + BLOCK_LEN { y -= 1 }
RECURSIVE Shrink(_, _, _)
Shrink(blocks, y, max_errors) ==
    IF y > 0 /\ blocks[y].score >= max_errors + BLOCK_LEN
    THEN Shrink(blocks, y - 1, max_errors)
    ELSE y

MaxBlockScore(pattern, block_count, y) ==
    IF y = block_count - 1 THEN Len(pattern) % BLOCK_LEN ELSE BLOCK_LEN

\* Frontier growth: activate block y (already incremented).
GrowBlock(f, blocks, match_bits, y, carry) ==
    LET reset == [blocks[y] EXCEPT !.plus_v = BitNot(Zero), !.minus_v = Zero]
        max_block_score == MaxBlockScore(f.pattern, f.block_count, y)
        r == advance_block(reset, match_bits[y], carry)
    IN [blocks EXCEPT ![y] =
           [r.block EXCEPT !.score =
               blocks[y - 1].score + max_block_score - carry + r.h_out]]

\* One iteration of the loop over the text: column f.j.
Column(f) ==
    LET char_code == f.text[f.j + 1]
        match_bits == lookup(f.pattern_bits, char_code)
        adv == AdvanceActive(f.blocks, match_bits, 0, f.y, 0)
        carry == adv.carry
        grow == /\ adv.blocks[f.y].score - carry <= f.max_errors
                /\ f.y < f.block_count - 1
                /\ (BitAnd(match_bits[f.y + 1], One) # Zero \/ carry < 0)
        y == IF grow THEN f.y + 1
             ELSE Shrink(adv.blocks, f.y, f.max_errors)
        blocks == IF grow THEN GrowBlock(f, adv.blocks, match_bits, y, carry)
                  ELSE adv.blocks
        report == y = f.block_count - 1 /\ blocks[y].score <= f.max_errors
        kept == IF blocks[y].score < f.max_errors THEN <<>> ELSE f.matches
    IN [f EXCEPT
          !.y = y,
          !.blocks = blocks,
          !.scores = Append(@, blocks[y].score),
          !.matches = IF report
                      THEN Append(kept, [start |-> 0, end |-> f.j + 1,
                                         errors |-> AsUsize(blocks[y].score)])
                      ELSE @,
          !.max_errors = IF report THEN blocks[y].score ELSE @,
          !.j = f.j + 1]

\* The column loop has run to the end of the text (or never started).
EndsFinished(f) == f.pattern = <<>> \/ f.j = Len(f.text)

-----------------------------------------------------------------------------
(* find_match_starts *)

MinStart_noslack(pattern, m) ==
    AsUsize(Max(0, m.end - Len(pattern)))

\* let min_start = 0.max(m.end as i32 - pattern.len() as i32 - m.errors as i32) as usize
MinStart(pattern, m) ==
    AsUsize(Max(0, m.end - Len(pattern) - AsI32(m.errors)))

\* let mut start = m.end;
\* for rm in match_ends { if m.end - rm.end < start { start = m.end - rm.end } }
\* The loop keeps the least of m.end and the candidates m.end - rm.end.
StartOf(m, match_ends) ==
    LET candidates == {m.end} \cup
                      {m.end - match_ends[i].end : i \in 1..Len(match_ends)}
    IN CHOOSE start \in candidates : \A c \in candidates : start <= c

-----------------------------------------------------------------------------
(* The program: search_impl(text, pattern, max_errors) *)

VARIABLES
    text, pattern, max_errors,  \* arguments of search_impl
    pc,                         \* position in search_impl
    pattern_bits,               \* search_impl's table
    matches,                    \* search_impl's Vec<Match>
    starts,                     \* locals of find_match_starts
    ends,                       \* locals of the running find_match_ends
    ab                          \* one call of advance_block on its own

vars == <<text, pattern, max_errors, pc, pattern_bits, matches, starts, ends, ab>>

Rep(c, n) == [i \in 1..n |-> c]

Strings(n) == UNION {[1..l -> Alphabet] : l \in 0..n}

ShortInputs ==
    [text : Strings(MaxTextLen), pattern : Strings(MaxPatLen),
     max_errors : 0..MaxK]

\* Patterns of two and three blocks, with lengths around the multiples of
\* BLOCK_LEN, against short texts, against themselves, and against a text
\* that matches and then drifts away until the frontier shrinks.
LongPatterns ==
    {Rep(97, n) : n \in {BLOCK_LEN + 1, 2 * BLOCK_LEN, 2 * BLOCK_LEN + 1}}
    \cup {Rep(97, BLOCK_LEN) \o <<955>>}

LongInputs ==
    [text : {<<97>>, <<955, 97>>, <<97, 955>>}, pattern : LongPatterns,
     max_errors : {0, BLOCK_LEN, 2 * BLOCK_LEN}]
    \cup {[text |-> p, pattern |-> p, max_errors |-> 0] :
            p \in LongPatterns \cup {Rep(97, BLOCK_LEN)}}
    \cup {[text |-> Rep(97, BLOCK_LEN) \o Rep(955, BLOCK_LEN + 1),
           pattern |-> Rep(97, BLOCK_LEN) \o <<955>>,
           max_errors |-> 0]}

Inputs == ShortInputs \cup LongInputs

NoBits == [ascii |-> <<>>, nonascii |-> <<>>, zero |-> <<>>]
NoStarts == [pat_rev |-> <<>>, pattern_bits |-> NoBits, mi |-> 0]
NoEnds == find_match_ends_enter(<<>>, <<>>, 0, NoBits)
NoCall == [called |-> FALSE, block_in |-> NewBlock(<<97>>, 0),
           block |-> NewBlock(<<97>>, 0), pattern_match_bits |-> Zero,
           h_in |-> 0, h_out |-> 0]

Init ==
    /\ \E i \in Inputs :
          /\ text = i.text
          /\ pattern = i.pattern
          /\ max_errors = i.max_errors
    /\ pc = "search_impl"
    /\ pattern_bits = NoBits
    /\ matches = <<>>
    /\ starts = NoStarts
    /\ ends = NoEnds
    /\ ab = NoCall

\* search_impl: build the table and call find_match_ends.
SearchBegin ==
    /\ pc = "search_impl"
    /\ pattern_bits' = PatternBits_new(pattern)
    /\ ends' = find_match_ends_enter(text, pattern, max_errors, pattern_bits')
    /\ pc' = "find_match_ends"
    /\ UNCHANGED <<text, pattern, max_errors, matches, starts, ab>>

\* find_match_ends: one text symbol, in the forward or in a reverse scan.
EndsColumn ==
    /\ pc \in {"find_match_ends", "find_match_starts.find_match_ends"}
    /\ ~EndsFinished(ends)
    /\ ends' = Column(ends)
    /\ UNCHANGED <<text, pattern, max_errors, pc, pattern_bits, matches, starts, ab>>

\* The forward scan returns; search_impl calls find_match_starts.
StartsBegin ==
    /\ pc = "find_match_ends"
    /\ EndsFinished(ends)
    /\ matches' = ends.matches
    /\ starts' = [pat_rev |-> reverse(pattern),
                  pattern_bits |-> PatternBits_new(reverse(pattern)),
                  mi |-> 1]
    /\ pc' = "find_match_starts"
    /\ UNCHANGED <<text, pattern, max_errors, pattern_bits, ends, ab>>

\* find_match_starts: take the next match and scan its reversed window.
\* text[min_start..m.end] panics when min_start > m.end.
StartsScan ==
    /\ pc = "find_match_starts"
    /\ starts.mi <= Len(matches)
    /\ LET m == matches[starts.mi]
           min_start == MinStart(pattern, m)
       IN IF min_start > m.end
          THEN pc' = "panic" /\ UNCHANGED ends
          ELSE /\ ends' = find_match_ends_enter(
                              reverse(SubSeq(text, min_start + 1, m.end)),
                              starts.pat_rev, m.errors, starts.pattern_bits)
               /\ pc' = "find_match_starts.find_match_ends"
    /\ UNCHANGED <<text, pattern, max_errors, pattern_bits, matches, starts, ab>>

\* The reverse scan returns; the match gets its start.
StartsAssign ==
    /\ pc = "find_match_starts.find_match_ends"
    /\ EndsFinished(ends)
    /\ LET m == matches[starts.mi]
       IN matches' = [matches EXCEPT ![starts.mi].start =
                         StartOf(m, ends.matches)]
    /\ starts' = [starts EXCEPT !.mi = @ + 1]
    /\ pc' = "find_match_starts"
    /\ UNCHANGED <<text, pattern, max_errors, pattern_bits, ends, ab>>

\* find_match_starts and search_impl return.
SearchReturn ==
    /\ pc = "find_match_starts"
    /\ starts.mi > Len(matches)
    /\ pc' = "done"
    /\ UNCHANGED <<text, pattern, max_errors, pattern_bits, matches, starts, ends, ab>>

Next ==
    \/ SearchBegin
    \/ EndsColumn
    \/ StartsBegin
    \/ StartsScan
    \/ StartsAssign
    \/ SearchReturn

Spec == Init /\ [][Next]_vars

-----------------------------------------------------------------------------
(* advance_block on its own: one call on a drawn block, word and h_in *)

LowWords == SUBSET (0..(LowRows - 1))
HighRows == LowRows..(BLOCK_LEN - 1)
HighEven == {r \in HighRows : r % 2 = 0}

\* plus_v/minus_v pairs: every combination of deltas on the low rows, with
\* the rows above all +1, all -1, all 0 or alternating.
BlockStates ==
    {[plus_v |-> lp \cup h[1], minus_v |-> lm \cup h[2]] :
        lp \in LowWords, lm \in LowWords,
        h \in {<<HighRows, {}>>, <<{}, HighRows>>, <<{}, {}>>,
               <<HighEven, HighRows \ HighEven>>}}

BlockInputs ==
    {[called |-> FALSE,
      block_in |-> [plus_v |-> v.plus_v, minus_v |-> v.minus_v,
                    last_row_mask |-> Bit(l), score |-> 0],
      block |-> [plus_v |-> v.plus_v, minus_v |-> v.minus_v,
                 last_row_mask |-> Bit(l), score |-> 0],
      pattern_match_bits |-> e \cup eh,
      h_in |-> h,
      h_out |-> 0] :
        v \in {w \in BlockStates : BitAnd(w.plus_v, w.minus_v) = Zero},
        l \in {0, LowRows - 1, BLOCK_LEN - 1},
        e \in LowWords, eh \in {{}, HighRows},
        h \in {-1, 0, 1}}

InitBlock ==
    /\ ab \in BlockInputs
    /\ text = <<>>
    /\ pattern = <<>>
    /\ max_errors = 0
    /\ pc = "advance_block"
    /\ pattern_bits = NoBits
    /\ matches = <<>>
    /\ starts = NoStarts
    /\ ends = NoEnds

AdvanceBlockCall ==
    /\ pc = "advance_block"
    /\ ~ab.called
    /\ LET r == advance_block(ab.block, ab.pattern_match_bits, ab.h_in)
       IN ab' = [ab EXCEPT !.called = TRUE, !.block = r.block,
                           !.h_out = r.h_out]
    /\ UNCHANGED <<text, pattern, max_errors, pc, pattern_bits, matches, starts, ends>>

NextBlock == AdvanceBlockCall

SpecBlock == InitBlock /\ [][NextBlock]_vars

-----------------------------------------------------------------------------
(* Reference dynamic programming *)

\* prefix minima of g over the indices lo..hi, as a sequence
RECURSIVE PrefixMin(_, _, _)
PrefixMin(g, lo, hi) ==
    IF lo = hi THEN <<g[lo]>>
    ELSE LET mid == (lo + hi) \div 2
             left == PrefixMin(g, lo, mid)
             right == PrefixMin(g, mid + 1, hi)
             m == left[Len(left)]
         IN left \o [k \in 1..Len(right) |-> Min(m, right[k])]

\* One column of the edit distance table from the column before it.
\* prev[i + 1] and the result's entry i + 1 are the values of row i
\* (i symbols of the pattern); cost[i] is 0 when pattern symbol i equals the
\* column's text symbol and 1 otherwise; top is the value of row 0.  The
\* recurrence
\*     D[i][j] = min(D[i-1][j-1] + cost[i], D[i][j-1] + 1, D[i-1][j] + 1)
\* is unrolled along the column: with b[0] = top and
\* b[i] = min(D[i-1][j-1] + cost[i], D[i][j-1] + 1) it reads
\* D[i][j] = min(b[i], D[i-1][j] + 1) = min over i' <= i of b[i'] + (i - i').
NextColumn(prev, cost, top) ==
    LET n == Len(prev)
        g == [i \in 1..n |->
                (IF i = 1 THEN top
                 ELSE Min(prev[i - 1] + cost[i - 1], prev[i] + 1)) - (i - 1)]
        pm == PrefixMin(g, 1, n)
    IN [i \in 1..n |-> pm[i] + (i - 1)]

Cost(p, c) == [i \in 1..Len(p) |-> IF p[i] = c THEN 0 ELSE 1]

\* The table of p against t, column by column.  A state is the column after
\* j text symbols and the least last-row value of the columns 0..j.  With
\* anchored the top row is j (edit distance to the whole of t[0..j]), without
\* it the top row is 0 (edit distance to the best suffix of t[0..j]).
FirstColumn(p) ==
    [col |-> [i \in 1..(Len(p) + 1) |-> i - 1], j |-> 0, best |-> Len(p)]

ColumnAfter(st, p, c, anchored) ==
    LET cur == NextColumn(st.col, Cost(p, c), IF anchored THEN st.j + 1 ELSE 0)
    IN [col |-> cur, j |-> st.j + 1, best |-> Min(st.best, cur[Len(p) + 1])]

\* the columns lo..hi of t applied to st, by halving
RECURSIVE Columns(_, _, _, _, _, _)
Columns(st, p, t, lo, hi, anchored) ==
    IF lo > hi THEN st
    ELSE IF lo = hi THEN ColumnAfter(st, p, t[lo], anchored)
    ELSE LET mid == (lo + hi) \div 2
             left == Columns(st, p, t, lo, mid, anchored)
         IN IF left.j = mid
            THEN Columns(left, p, t, mid + 1, hi, anchored)
            ELSE left

Levenshtein(a, b) ==
    Columns(FirstColumn(a), a, b, 1, Len(b), TRUE).col[Len(a) + 1]

\* T[s..e] of the source (s inclusive, e exclusive, from 0).
Slice(t, s, e) == SubSeq(t, s + 1, e)

\* min over s of Levenshtein(p, t[s..e]) for the end e.
MinDistEndingAt(p, t, e) ==
    Columns(FirstColumn(p), p, t, 1, e, FALSE).col[Len(p) + 1]

\* min of Levenshtein(p, t[s..e]) over all substrings of t.
MinDist(p, t) == Columns(FirstColumn(p), p, t, 1, Len(t), FALSE).best

-----------------------------------------------------------------------------
(* Properties *)

Scanning == pc \in {"find_match_ends", "find_match_starts.find_match_ends"}

MatchIndices == 1..Len(matches)

\* C1: every match (s, e, err) returned by search_impl has
\* err = Levenshtein(P, T[s..e]).
C1_ErrorsAreLevenshtein ==
    pc = "done" =>
        \A i \in MatchIndices :
            matches[i].errors =
                Levenshtein(pattern, Slice(text, matches[i].start, matches[i].end))

\* C2: for a non-empty pattern, with d the least Levenshtein(P, T[s..e]) over
\* all substrings of T: if d <= k the result is non-empty and every match
\* has errors = d, and if d > k the result is empty.
C2_Minimality ==
    (pc = "done" /\ pattern # <<>>) =>
        LET d == MinDist(pattern, text)
        IN IF d <= max_errors
           THEN /\ matches # <<>>
                /\ \A i \in MatchIndices : matches[i].errors = d
           ELSE matches = <<>>

C4_IdentitySearch ==
    (pc = "done" /\ pattern # <<>> /\ text = pattern /\ max_errors = 0) =>
        matches = <<[start |-> 0, end |-> Len(pattern), errors |-> 0]>>

\* C5: every returned match satisfies 0 <= s <= e <= |T| and
\* 0 <= err <= min(k, |P|), and the block score is not negative when a match
\* is recorded (the running budget is the score of the last recorded match).
C5_Bounds ==
    /\ pc = "done" =>
          \A i \in MatchIndices :
              /\ 0 <= matches[i].start
              /\ matches[i].start <= matches[i].end
              /\ matches[i].end <= Len(text)
              /\ 0 <= matches[i].errors
              /\ matches[i].errors <= Min(max_errors, Len(pattern))
    /\ (Scanning /\ ends.matches # <<>>) => ends.max_errors >= 0

\* The column before the call of advance_block, from the row above the block
\* (value 0) down: entry r + 2 is the value of the block's row r.
RefOld(block) ==
    [i \in 1..(BLOCK_LEN + 1) |->
        Cardinality(block.plus_v \cap (0..(i - 2)))
            - Cardinality(block.minus_v \cap (0..(i - 2)))]

\* The next column by the cell recurrence, the row above the block moving
\* by h_in.
RefNew(call) ==
    NextColumn(RefOld(call.block_in),
               [i \in 1..BLOCK_LEN |->
                   IF (i - 1) \in call.pattern_match_bits THEN 0 ELSE 1],
               call.h_in)

LastRow(block) == CHOOSE r \in AllOnes : r \in block.last_row_mask

\* C6: advance_block agrees with the cell-by-cell recurrence: it leaves
\* plus_v/minus_v encoding the vertical deltas of the next column and
\* returns the horizontal difference at the last row, which is -1, 0 or 1.
C6_AdvanceBlockIsDP ==
    ab.called =>
        LET old == RefOld(ab.block_in)
            new == RefNew(ab)
            l == LastRow(ab.block_in)
        IN /\ \A r \in AllOnes : new[r + 2] - new[r + 1] \in {-1, 0, 1}
           /\ ab.block.plus_v = {r \in AllOnes : new[r + 2] - new[r + 1] = 1}
           /\ ab.block.minus_v = {r \in AllOnes : new[r + 2] - new[r + 1] = -1}
           /\ ab.h_out = new[l + 2] - old[l + 2]
           /\ ab.h_out \in {-1, 0, 1}

\* A call with a negative h_in on a block with decreasing rows whose
\* addition carries out of the top bit, and which changed the block.
C6_Witness ==
    /\ ab.called
    /\ ab.h_in = -1
    /\ ab.block_in.minus_v # Zero
    /\ (BLOCK_LEN - 1) \in ab.block_in.plus_v
    /\ ab.block.minus_v # ab.block_in.minus_v
    /\ ab.h_out = -1

\* C7: in find_match_ends, after a text symbol, whenever the frontier is at
\* the final block the final block's score is the least Levenshtein distance
\* between the pattern and a substring of the text ending at that symbol.
C7_FinalScoreExact ==
    (Scanning /\ ends.j > 0 /\ ends.y = ends.block_count - 1) =>
        ends.blocks[ends.y].score = MinDistEndingAt(ends.pattern, ends.text, ends.j)

\* C8: ratchet of find_match_ends: the budget starts at min(k, |P|) and
\* never increases from one symbol to the next, the collected ends strictly
\* increase, every collected match has errors equal to the current budget,
\* and a match with a strictly lower score is alone in the list.
C8_Ratchet ==
    [][/\ (pc = "search_impl" /\ pc' = "find_match_ends" /\ pattern # <<>>) =>
              ends'.max_errors = Min(max_errors, Len(pattern))
       /\ (Scanning /\ pc' = pc /\ ends'.j = ends.j + 1) =>
              /\ ends'.max_errors <= ends.max_errors
              /\ ends'.max_errors < ends.max_errors => Len(ends'.matches) = 1
              /\ \A i \in 1..Len(ends'.matches) :
                    /\ ends'.matches[i].errors = ends'.max_errors
                    /\ i > 1 => ends'.matches[i - 1].end < ends'.matches[i].end]_vars

Occurs(c, p) == \E i \in 1..Len(p) : p[i] = c

\* C9: for a symbol that occurs in the pattern, lookup has bit r of word b
\* set iff P[b*w + r] is the symbol or b*w + r >= |P|; for a symbol that does
\* not occur, lookup is the all-zero vector of B words.
C9_LookupBits ==
    pc # "search_impl" =>
        \A c \in Alphabet \cup {98, 956} :
            IF Occurs(c, pattern)
            THEN \A b \in 0..(BlockCount(pattern) - 1) : \A r \in AllOnes :
                    r \in lookup(pattern_bits, c)[b]
                        <=> \/ b * BLOCK_LEN + r >= Len(pattern)
                            \/ pattern[b * BLOCK_LEN + r + 1] = c
            ELSE lookup(pattern_bits, c) =
                     [b \in 0..(BlockCount(pattern) - 1) |-> Zero]

\* C10: in every state reached by find_match_ends every block has
\* plus_v & minus_v = 0.
C10_Disjoint ==
    \A b \in DOMAIN ends.blocks :
        BitAnd(ends.blocks[b].plus_v, ends.blocks[b].minus_v) = Zero

\* The frontier has grown past its initial block in the forward scan and the
\* newly reset block has been advanced to hold rows of both signs.
C10_Witness ==
    /\ pc = "find_match_ends"
    /\ ends.y > Max(0, ((Min(max_errors, Len(pattern)) + BLOCK_LEN - 1)
                            \div BLOCK_LEN) - 1)
    /\ ends.blocks[ends.y].plus_v # Zero
    /\ ends.blocks[ends.y].minus_v # Zero

====
